---------------------------- MODULE Spec2Model ----------------------------
(***************************************************************************)
(* pdinklag/random-permutation: the prime oracle (math_utils.hpp), the     *)
(* permutation engine and its iterator (random_permutation.hpp/.cpp) and   *)
(* the command line tool (generate.cpp).                                   *)
(*                                                                         *)
(* The machine word.  The source computes in uint64_t.  TLC's integers are *)
(* 32 bits wide, so the word is scaled to WordBits = 16 bits and every     *)
(* unsigned operation is reduced modulo Word = 2^16.  16 is chosen because *)
(*   - it is even, like 64, so 2^WordBits mod 6 = 4 and the wrapped        *)
(*     subtraction in is_prime lands where it lands in the source;         *)
(*   - it is a multiple of 8, so the first two rows of common_universes    *)
(*     (2^16-2 and 2^16-1) are the top two values of the word, the role    *)
(*     UINT64_MAX-1 and UINT64_MAX play in the source;                     *)
(*   - SMALL_PRIMES (up to 251) still ends below the largest square root.  *)
(* Rows of common_universes and bits of SHUFFLE1/SHUFFLE2 that do not fit  *)
(* the scaled word are dropped.                                            *)
(***************************************************************************)
EXTENDS Integers, Sequences, FiniteSets

(***************************************************************************)
(* State                                                                   *)
(***************************************************************************)
VARIABLES
    perm,      \* the RandomPermutation object: universe_, seed_, prime_
    ctor,      \* how perm was constructed, and from which arguments
    ret,       \* the last operator() call on perm: index and result
    it,        \* the cursor (Iterator) into perm
    steps,     \* operator++ calls on the cursor since it was created
    pc,        \* "idle", or the position of a range-for loop over perm
    derefs,    \* indices the loop has dereferenced, in order
    yielded,   \* values the loop has yielded, in order
    twinPerm,  \* a second RandomPermutation object
    twinCtor,  \* how twinPerm was constructed
    twinRet,   \* the last operator() call on twinPerm
    clock,     \* std::chrono::high_resolution_clock, as timestamp() reads it
    argv,      \* main: u, num, seed, check as parsed, and cp.process's result
    mainPc,    \* main: position
    loopI,     \* main: i of the running for loop
    b,         \* main: std::vector<bool> b(u) of the check pass
    cout,      \* main: the numbers written to std::cout, one per line
    cerr,      \* main: the lines written to std::cerr
    status,    \* main: the value returned
    called,    \* math_utils: the function last called directly, or "none"
    input,     \* math_utils: its argument
    output,    \* math_utils: the value it returned
    products,  \* math_utils: the exact values of the products it formed
    tableReads,\* math_utils: the indices of SMALL_PRIMES it read
    searchU,   \* prev_prime_3mod4 step by step: the argument universe
    searchPc,  \* prev_prime_3mod4 step by step: position
    searchP    \* prev_prime_3mod4 step by step: the local p

twinVars == <<twinPerm, twinCtor, twinRet, clock>>
mainVars == <<argv, mainPc, loopI, b, cout, cerr, status>>
oracleVars == <<called, input, output, products, tableReads>>
searchVars == <<searchU, searchPc, searchP>>
mathVars == <<oracleVars, searchVars>>
vars == <<perm, ctor, ret, it, steps, pc, derefs, yielded, twinVars, mainVars,
          mathVars>>

\* width of uint64_t, scaled (see above)
WordBits == 16

\* constexpr uint64_t pow2(int x) { return uint64_t(1) << x; }
pow2(x) == 2 ^ x

Word == pow2(WordBits)

\* UINT64_MAX
WordMax == Word - 1

\* unsigned addition and subtraction, wrapping
AddW(m, n) == (m + n) % Word
SubW(m, n) == (m - n) % Word

\* (__uint128_t)x * (__uint128_t)y % (__uint128_t)p: the exact product reduced
\* by p.  The product is split so that no intermediate exceeds 2^25.
MulMod128(x, y, p) ==
    (((x \div 256) * ((256 * y) % p)) + ((x % 256) * y)) % p

\* uint64_t multiplication: the product wraps at the word
MulW(m, n) == MulMod128(m, n, Word)

\* a ^ b on words
RECURSIVE Xor(_, _)
Xor(m, n) ==
    IF m = 0 /\ n = 0 THEN 0
    ELSE (((m % 2) + (n % 2)) % 2) + (2 * Xor(m \div 2, n \div 2))

\* std::bit_width
RECURSIVE bit_width(_)
bit_width(x) == IF x = 0 THEN 0 ELSE 1 + bit_width(x \div 2)

\* x >> k
Shr(x, k) == x \div pow2(k)

\* bool converted to an integer
B2I(t) == IF t THEN 1 ELSE 0

(***************************************************************************)
(* math_utils.hpp                                                          *)
(***************************************************************************)

\* the loop of isqrt_floor: e is the value tested by while(e--)
RECURSIVE isqrt_loop(_, _, _)
isqrt_loop(x, e, r) ==
    IF e = 0 THEN r
    ELSE LET e1  == e - 1
             cur == Shr(x, 2 * e1)
             sm  == (2 * r) % Word
             lg  == AddW(sm, 1)
         IN  isqrt_loop(x, e1, AddW(sm, B2I(MulW(lg, lg) <= cur)))

isqrt_floor(x) ==
    IF x < 4 THEN B2I(x > 0)
    ELSE isqrt_loop(x, Shr(bit_width(x), 1), 1)

isqrt_ceil(x) ==
    LET r == isqrt_floor(x)
    IN  AddW(r, B2I(MulW(r, r) < x))

SMALL_PRIMES ==
    << 1,2,3,5,7,11,13,17,19,23,29,31,37,41,43,47,53,59,61,67,71,73,79,83,89,97,101,
       103,107,109,113,127,131,137,139,149,151,157,163,167,173,179,181,191,193,197,199,
       211,223,227,229,233,239,241,251 >>

NUM_SMALL_PRIMES == 55

\* SMALL_PRIMES[j], j counted from 0 as in the source
SmallPrime(j) == SMALL_PRIMES[j + 1]

\* the first loop of is_prime, entered with i = SMALL_PRIMES[j]: the value of
\* i it leaves, or -1 when it returns false
RECURSIVE small_loop(_, _, _)
small_loop(p, m, j) ==
    LET i == SmallPrime(j)
    IN  IF i <= m /\ j < NUM_SMALL_PRIMES - 1
        THEN IF (p % i) = 0 THEN -1 ELSE small_loop(p, m, j + 1)
        ELSE i

\* the second loop of is_prime
RECURSIVE wheel_loop(_, _, _)
wheel_loop(p, m, i) ==
    IF i <= m
    THEN IF ((p % i) = 0) \/ ((p % AddW(i, 2)) = 0) THEN FALSE
         ELSE wheel_loop(p, m, AddW(i, 6))
    ELSE TRUE

is_prime(p) ==
    IF (p % 2) = 0 THEN FALSE
    ELSE LET m == isqrt_ceil(p)
             i == small_loop(p, m, 2)
         IN  IF i = -1 THEN FALSE
             ELSE wheel_loop(p, m, AddW(5, MulW(SubW(i, 5) \div 6, 6)))

\* the linear search of prime_predecessor
RECURSIVE prime_scan(_)
prime_scan(p) == IF is_prime(p) THEN p ELSE prime_scan(SubW(p, 2))

prime_predecessor(p) ==
    IF p = 0 THEN 0
    ELSE IF p = 2 THEN 2
    ELSE prime_scan(IF (p % 2) = 0 THEN SubW(p, 1) ELSE p)

(***************************************************************************)
(* random_permutation.hpp / random_permutation.cpp                         *)
(***************************************************************************)

\* the rows of the table whose universe fits the word, and the end marker
common_universes ==
    << [universe |-> pow2(16) - 2, prime |-> pow2(16) - 17],
       [universe |-> pow2(16) - 1, prime |-> pow2(16) - 17],
       [universe |-> 0, prime |-> 0] >>

\* 0x36B2, the low 16 bits of 0x9696594B6A5936B2
SHUFFLE1 == 14002

\* 0x2AD6, the low 16 bits of 0xD2165B4B66592AD6
SHUFFLE2 == 10966

\* the table scan of prev_prime_3mod4 from row i (counted from 0): the prime
\* of the matching row, or -1 when the end marker is reached
RECURSIVE common_lookup(_, _)
common_lookup(universe, i) ==
    IF common_universes[i + 1].prime > 0
    THEN IF universe = common_universes[i + 1].universe
         THEN common_universes[i + 1].prime
         ELSE common_lookup(universe, i + 1)
    ELSE -1

\* while((p & 3) != 3) p = prime_predecessor(p - 1);
RECURSIVE descend_3mod4(_)
descend_3mod4(p) ==
    IF (p % 4) # 3 THEN descend_3mod4(prime_predecessor(SubW(p, 1))) ELSE p

prev_prime_3mod4(universe) ==
    LET hit == common_lookup(universe, 0)
    IN  IF hit # -1 THEN hit
        ELSE descend_3mod4(prime_predecessor(universe))


\* a default constructor that leaves the universe empty
EmptyPermutation == [universe_ |-> 0, seed_ |-> 0, prime_ |-> 0]

\* RandomPermutation::RandomPermutation()
DefaultPermutation == [universe_ |-> 1, seed_ |-> 0, prime_ |-> 0]

\* RandomPermutation::timestamp(), the default seed argument
timestamp == clock

\* a constructor that takes the timestamp whatever seed it is given
shuffle_timestamp(seed) == Xor(Xor(timestamp, SHUFFLE1), SHUFFLE2)

\* seed_((seed ^ SHUFFLE1) ^ SHUFFLE2)
shuffle_seed(seed) == Xor(Xor(seed, SHUFFLE1), SHUFFLE2)

\* RandomPermutation::RandomPermutation(universe, seed)
RandomPermutation(universe, seed) ==
    [universe_ |-> universe,
     seed_     |-> shuffle_seed(seed),
     prime_    |-> prev_prime_3mod4(universe)]

\* permute with the square taken in the 64-bit word, not widened
permute_narrow(p, x) ==
    IF x >= p.prime_ THEN x
    ELSE LET r == MulW(x, x) % p.prime_
         IN  IF x <= Shr(p.prime_, 1) THEN r ELSE p.prime_ - r

\* RandomPermutation::permute
permute(p, x) ==
    IF x >= p.prime_ THEN x
    ELSE LET r == MulMod128(x, x, p.prime_)
         IN  IF x <= Shr(p.prime_, 1) THEN r ELSE p.prime_ - r

\* seed_ + permute(i), the dividend of operator()
dividend(p, i) == AddW(p.seed_, permute(p, i))

\* the middle step of operator(): (seed_ + x) % universe_
offset(p, x) == AddW(p.seed_, x) % p.universe_

\* RandomPermutation::operator(), universe_ # 0
operator_call(p, i) == permute(p, offset(p, permute(p, i)))

\* What operator() can do.  With universe_ = 0 the remainder is a division by
\* zero: the build either traps (x86: SIGFPE) or goes on with the dividend as
\* the remainder (AArch64: udiv yields 0, msub returns the dividend).
operator_outcomes(p, i) ==
    IF p.universe_ # 0
    THEN {[trap |-> FALSE, v |-> operator_call(p, i)]}
    ELSE {[trap |-> TRUE, v |-> 0],
          [trap |-> FALSE, v |-> permute(p, dividend(p, i))]}

\* Iterator(perm, x)
Iterator(p, x) == [perm_ |-> "perm", x_ |-> x, overflow_ |-> (x > p.universe_)]

\* Iterator(perm, x, overflow)
IteratorFlag(p, x, overflow) == [perm_ |-> "perm", x_ |-> x, overflow_ |-> overflow]

\* RandomPermutation::begin / at / end
begin(p) == Iterator(p, 0)
at(p, i) == Iterator(p, i)
end(p) == IteratorFlag(p, AddW(p.universe_, 1), TRUE)

\* operator++ with the flag computed after the index has moved
increment_late(p, c) ==
    [perm_ |-> c.perm_, x_ |-> AddW(c.x_, 1),
     overflow_ |-> (AddW(c.x_, 1) = p.universe_)]

\* Iterator::operator++: overflow_ = (x_ == perm_->universe_); ++x_;
increment(p, c) ==
    [perm_ |-> c.perm_, x_ |-> AddW(c.x_, 1), overflow_ |-> (c.x_ = p.universe_)]

(***************************************************************************)
(* Bounds of the model                                                     *)
(***************************************************************************)
MaxUniverse == 8
MaxSeed == 1

Universes == 0 .. MaxUniverse
Indices == 0 .. (MaxUniverse + 1)

\* user seeds: the small ones, and the ones that shuffle_seed maps to the top
\* of the word, where seed_ + x wraps for some x
Seeds ==
    (0 .. MaxSeed) \cup {Xor(WordMax - k, Xor(SHUFFLE1, SHUFFLE2)) : k \in 0 .. MaxSeed}

(***************************************************************************)
(* Initial states and operations                                           *)
(***************************************************************************)
NoCall == [i |-> -1, v |-> -1]
NoIter == [perm_ |-> "null", x_ |-> 0, overflow_ |-> FALSE]

\* placeholders where no object has been constructed
NoPerm == [universe_ |-> 0, seed_ |-> 0, prime_ |-> 0]
NoCtor == [kind |-> "none", universe |-> 0, seed |-> 0]
NoArgs == [u |-> 0, num |-> 0, seed |-> 0, check |-> FALSE, ok |-> FALSE]

\* no function of math_utils has been called directly
OracleNone ==
    /\ called = "none"
    /\ input = 0
    /\ output = 0
    /\ products = {}
    /\ tableReads = {}

\* prev_prime_3mod4 is not being followed step by step
SearchNone ==
    /\ searchU = 0
    /\ searchPc = "none"
    /\ searchP = 0

MathNone == OracleNone /\ SearchNone

\* there is no second object
TwinNone ==
    /\ twinPerm = NoPerm
    /\ twinCtor = NoCtor
    /\ twinRet = NoCall
    /\ clock = 0

\* main is not running
MainNone ==
    /\ argv = NoArgs
    /\ mainPc = "none"
    /\ loopI = 0
    /\ b = <<>>
    /\ cout = <<>>
    /\ cerr = <<>>
    /\ status = 0

\* nothing has been done with the object yet
Fresh ==
    /\ ret = NoCall
    /\ it = NoIter
    /\ steps = 0
    /\ pc = "idle"
    /\ derefs = <<>>
    /\ yielded = <<>>

\* RandomPermutation perm;
DefaultConstruct ==
    /\ perm = DefaultPermutation
    /\ ctor = [kind |-> "default", universe |-> 1, seed |-> 0]
    /\ Fresh

\* RandomPermutation perm(universe, seed);
Construct(universe, seed) ==
    /\ perm = RandomPermutation(universe, seed)
    /\ ctor = [kind |-> "args", universe |-> universe, seed |-> seed]
    /\ Fresh

\* The object is constructed once, by either constructor, and then used.
Init ==
    /\ \/ DefaultConstruct
       \/ \E universe \in Universes, seed \in Seeds : Construct(universe, seed)
    /\ TwinNone
    /\ MainNone
    /\ MathNone

\* perm(i)
Call(i) ==
    /\ pc \in {"idle", "done"}
    /\ \E o \in operator_outcomes(perm, i) :
          IF o.trap
          THEN pc' = "trap" /\ ret' = NoCall
          ELSE pc' = pc /\ ret' = [i |-> i, v |-> o.v]
    /\ UNCHANGED <<perm, ctor, it, steps, derefs, yielded, twinVars, mainVars, mathVars>>

\* it = perm.begin()
Begin ==
    /\ pc \in {"idle", "done"}
    /\ it' = begin(perm) /\ steps' = 0
    /\ UNCHANGED <<perm, ctor, ret, pc, derefs, yielded, twinVars, mainVars, mathVars>>

\* it = perm.at(i)
At(i) ==
    /\ pc \in {"idle", "done"}
    /\ it' = at(perm, i) /\ steps' = 0
    /\ UNCHANGED <<perm, ctor, ret, pc, derefs, yielded, twinVars, mainVars, mathVars>>

\* ++it, on a cursor that has not reached end(): one at or past end() is not
\* advanced
Incr ==
    /\ pc \in {"idle", "done"}
    /\ it # NoIter /\ it # end(perm) /\ it.x_ <= perm.universe_
    /\ it' = increment(perm, it) /\ steps' = steps + 1
    /\ UNCHANGED <<perm, ctor, ret, pc, derefs, yielded, twinVars, mainVars, mathVars>>

\* *it, on a cursor that is not end()
Deref ==
    /\ pc \in {"idle", "done"}
    /\ it # NoIter /\ it # end(perm)
    /\ \E o \in operator_outcomes(perm, it.x_) :
          IF o.trap
          THEN pc' = "trap" /\ ret' = NoCall
          ELSE pc' = pc /\ ret' = [i |-> it.x_, v |-> o.v]
    /\ UNCHANGED <<perm, ctor, it, steps, derefs, yielded, twinVars, mainVars, mathVars>>

\* for(auto x : perm): the loop starts with it = begin()
ForBegin ==
    /\ pc \in {"idle", "done"}
    /\ it' = begin(perm) /\ steps' = 0
    /\ pc' = "for" /\ derefs' = <<>> /\ yielded' = <<>>
    /\ UNCHANGED <<perm, ctor, ret, twinVars, mainVars, mathVars>>

\* one round of the loop: it != end(), x = *it, the body, ++it
ForStep ==
    /\ pc = "for"
    /\ it # end(perm)
    /\ \E o \in operator_outcomes(perm, it.x_) :
          IF o.trap
          THEN pc' = "trap" /\ UNCHANGED <<it, steps, derefs, yielded>>
          ELSE /\ pc' = pc
               /\ derefs' = Append(derefs, it.x_)
               /\ yielded' = Append(yielded, o.v)
               /\ it' = increment(perm, it)
               /\ steps' = steps + 1
    /\ UNCHANGED <<perm, ctor, ret, twinVars, mainVars, mathVars>>

\* the loop ends: it == end()
ForEnd ==
    /\ pc = "for"
    /\ it = end(perm)
    /\ pc' = "done"
    /\ UNCHANGED <<perm, ctor, ret, it, steps, derefs, yielded, twinVars, mainVars, mathVars>>

Next ==
    \/ \E i \in Indices : Call(i)
    \/ Begin
    \/ \E i \in Indices : At(i)
    \/ Incr
    \/ Deref
    \/ ForBegin
    \/ ForStep
    \/ ForEnd

Spec == Init /\ [][Next]_vars

(***************************************************************************)
(* Arithmetic the claims are stated in, independent of the code            *)
(***************************************************************************)
IsPrimeNumber(n) == n >= 2 /\ \A d \in 2 .. (n - 1) : (n % d) # 0

IsPrime3Mod4(n) == IsPrimeNumber(n) /\ (n % 4) = 3

\* the largest prime p <= u with p mod 4 = 3; it exists for u >= 3
LargestPrime3Mod4(u) ==
    CHOOSE p \in 0 .. u :
        /\ IsPrime3Mod4(p)
        /\ \A q \in (p + 1) .. u : ~IsPrime3Mod4(q)

\* a sequence without repetitions
NoRepeats(sq) == \A m, n \in DOMAIN sq : m # n => sq[m] # sq[n]

FromArgs == ctor.kind = "args" /\ ctor.universe >= 1

(***************************************************************************)
(* Claims checked under Spec                                               *)
(***************************************************************************)

\* C1: for every universe >= 1 and every seed, operator() maps the indices
\* 0 .. universe-1 onto exactly {0 .. universe-1}: every output is below the
\* universe and no two indices share an output.
C1_Bijection ==
    FromArgs =>
        {operator_call(perm, i) : i \in 0 .. (perm.universe_ - 1)}
            = 0 .. (perm.universe_ - 1)

\* C2: a traversal from begin() to end() dereferences exactly the indices
\* 0, 1, ..., universe-1 in that order: the k-th dereference is of index k-1,
\* which is below the universe; the cursor equals end() as soon as universe
\* indices have been passed; a finished traversal has yielded exactly
\* universe values; and no value is yielded twice.
C2_Traversal ==
    (pc \in {"for", "done"} /\ perm.universe_ >= 1) =>
        /\ \A k \in DOMAIN derefs : derefs[k] = k - 1 /\ derefs[k] < perm.universe_
        /\ (Len(derefs) >= perm.universe_ => it = end(perm))
        /\ (pc = "done" => Len(yielded) = perm.universe_)
        /\ NoRepeats(yielded)

\* C3: for every universe >= 3, prev_prime_3mod4(universe) is the largest
\* prime p <= universe with p mod 4 = 3.
C3_LargestPrime ==
    (ctor.kind = "args" /\ ctor.universe >= 3) =>
        perm.prime_ = LargestPrime3Mod4(ctor.universe)

\* C5: the default-constructed permutation has universe = 1, prime = 0 and
\* seed = 0, and operator()(0) returns 0.
C5_Default ==
    ctor.kind = "default" =>
        /\ perm.universe_ = 1 /\ perm.prime_ = 0 /\ perm.seed_ = 0
        /\ (ret.i = 0 => ret.v = 0)

C5_Witness == ctor.kind = "default" /\ ret = [i |-> 0, v |-> 0]

\* C7: a permutation made by the two-argument constructor with universe >= 1
\* has 1 <= prime_ <= universe_; prime_ = 0 occurs only in the
\* default-constructed permutation; and no operation changes universe_,
\* prime_ or seed_ afterwards.
C7_PrimeInUniverse ==
    /\ [](FromArgs => (1 <= perm.prime_ /\ perm.prime_ <= perm.universe_))
    /\ [](perm.prime_ = 0 => ctor.kind = "default")
    /\ [][perm' = perm]_vars

\* C9: the middle step of operator(), x -> (seed_ + x) mod universe with the
\* sum wrapping at the word, is one-to-one on [0, universe) for every seed and
\* every universe >= 1.
C9_OffsetInjective ==
    FromArgs =>
        \A x, y \in 0 .. (perm.universe_ - 1) :
            x # y => offset(perm, x) # offset(perm, y)

(***************************************************************************)
(* SpecTop: a cursor over the largest universe the index word can hold     *)
(***************************************************************************)
InitTop ==
    /\ \E seed \in Seeds : Construct(WordMax, seed)
    /\ TwinNone
    /\ MainNone
    /\ MathNone

NextTop == Begin \/ Incr

SpecTop == InitTop /\ [][NextTop]_vars

\* C10: for universe = 2^WordBits - 1, begin() differs from end(); advancing
\* begin() reaches a cursor equal to end() exactly at the increment that wraps
\* the index from the largest word to 0; the overflow flag is false in every
\* earlier cursor state and true in that one.
C10_TopWrap ==
    (perm.universe_ = WordMax /\ it # NoIter) =>
        /\ begin(perm) # end(perm)
        /\ (it = end(perm)) <=> (steps = Word)
        /\ steps < Word => (~it.overflow_ /\ it.x_ = steps)
        /\ steps = Word => (it.overflow_ /\ it.x_ = 0)

C10_Witness ==
    /\ perm.universe_ = WordMax
    /\ steps = Word
    /\ it = end(perm)

(***************************************************************************)
(* SpecPermute: the private step permute on an object whose fields are     *)
(* any prime p = 3 (mod 4) and any universe >= p within the bounds         *)
(***************************************************************************)
MaxPrime == 271
MaxGap == 2

InitPermute ==
    \E p \in {q \in 3 .. MaxPrime : IsPrime3Mod4(q)} :
        \E g \in 0 .. MaxGap :
            /\ perm = [universe_ |-> p + g, seed_ |-> 0, prime_ |-> p]
            /\ ctor = [kind |-> "fields", universe |-> p + g, seed |-> 0]
            /\ Fresh
            /\ TwinNone
            /\ MainNone
            /\ MathNone

\* permute(x)
Permute(x) ==
    /\ ret' = [i |-> x, v |-> permute(perm, x)]
    /\ UNCHANGED <<perm, ctor, it, steps, pc, derefs, yielded, twinVars, mainVars, mathVars>>

NextPermute == \E x \in 0 .. (perm.universe_ - 1) : Permute(x)

SpecPermute == InitPermute /\ [][NextPermute]_vars

\* C8: for every prime p with p mod 4 = 3 and every universe >= p, permute
\* is a bijection of [0, universe): on [0, p) it is x*x mod p for x <= p/2
\* and p - (x*x mod p) otherwise, which maps [0, p) one-to-one onto [0, p),
\* and it returns every x in [p, universe) unchanged.
C8_PermuteBijection ==
    LET p == perm.prime_
        U == perm.universe_
        qr(x) == (x * x) % p
    IN  /\ ret # NoCall =>
            ret.v = (IF ret.i >= p THEN ret.i
                     ELSE IF ret.i <= p \div 2 THEN qr(ret.i) ELSE p - qr(ret.i))
        /\ {permute(perm, x) : x \in 0 .. (p - 1)} = 0 .. (p - 1)
        /\ \A x \in p .. (U - 1) : permute(perm, x) = x

\* the reflected half, with a square that does not fit the word
C8_Witness ==
    /\ ret # NoCall
    /\ ret.i < perm.prime_
    /\ ret.i > perm.prime_ \div 2
    /\ ret.i * ret.i > WordMax

(***************************************************************************)
(* SpecTwin: two objects, the second constructed after the first, at a     *)
(* later reading of the clock                                              *)
(***************************************************************************)
MaxClock == 1

InitTwin ==
    /\ TwinNone
    /\ MainNone
    /\ MathNone
    /\ \/ \E universe \in Universes, seed \in Seeds : Construct(universe, seed)
       \/ \E universe \in Universes : Construct(universe, timestamp)

\* time passes
Tick ==
    /\ clock < MaxClock
    /\ clock' = clock + 1
    /\ UNCHANGED <<perm, ctor, ret, it, steps, pc, derefs, yielded,
                   twinPerm, twinCtor, twinRet, mainVars, mathVars>>

\* RandomPermutation twin(universe, seed); both objects exist before either
\* is used
TwinConstruct(universe, seed) ==
    /\ twinCtor.kind = "none"
    /\ ret = NoCall /\ pc = "idle"
    /\ twinPerm' = RandomPermutation(universe, seed)
    /\ twinCtor' = [kind |-> "args", universe |-> universe, seed |-> seed]
    /\ UNCHANGED <<perm, ctor, ret, it, steps, pc, derefs, yielded,
                   twinRet, clock, mainVars, mathVars>>

\* twin(i)
TwinCall(i) ==
    /\ twinCtor.kind # "none"
    /\ pc = "idle"
    /\ \E o \in operator_outcomes(twinPerm, i) :
          IF o.trap
          THEN pc' = "trap" /\ twinRet' = NoCall
          ELSE pc' = pc /\ twinRet' = [i |-> i, v |-> o.v]
    /\ UNCHANGED <<perm, ctor, ret, it, steps, derefs, yielded,
                   twinPerm, twinCtor, clock, mainVars, mathVars>>

MaxTwinIndex == 2

NextTwin ==
    \/ Tick
    \/ \E universe \in Universes, seed \in Seeds : TwinConstruct(universe, seed)
    \/ \E universe \in Universes : TwinConstruct(universe, timestamp)
    \/ \E i \in 0 .. MaxTwinIndex : Call(i)
    \/ \E i \in 0 .. MaxTwinIndex : TwinCall(i)

SpecTwin == InitTwin /\ [][NextTwin]_vars

SameArgs ==
    /\ ctor.kind = "args" /\ twinCtor.kind = "args"
    /\ ctor.universe = twinCtor.universe
    /\ ctor.seed = twinCtor.seed
    /\ ctor.universe >= 1

universe_too_small_swapped(u, num) == num < u

\* if(u < num)
universe_too_small(u, num) == u < num

InitMain ==
    /\ \E u \in Universes, num \in Indices, seed \in Seeds,
          check \in BOOLEAN, ok \in BOOLEAN :
          argv = [u |-> u, num |-> num, seed |-> seed, check |-> check, ok |-> ok]
    /\ mainPc = "process"
    /\ loopI = 0 /\ b = <<>> /\ cout = <<>> /\ cerr = <<>> /\ status = 0
    /\ perm = NoPerm /\ ctor = NoCtor
    /\ Fresh
    /\ TwinNone
    /\ MathNone

libIdle == <<ret, it, steps, pc, derefs, yielded, twinVars, mathVars>>

\* if(!cp.process(argc, argv)) return -1;
MainProcessFail ==
    /\ mainPc = "process" /\ ~argv.ok
    /\ status' = -1
    /\ mainPc' = "exit"
    /\ UNCHANGED <<perm, ctor, libIdle, argv, loopI, b, cout, cerr>>

MainProcessOk ==
    /\ mainPc = "process" /\ argv.ok
    /\ mainPc' = "guard"
    /\ UNCHANGED <<perm, ctor, libIdle, argv, loopI, b, cout, cerr, status>>

\* if(u < num) { std::cerr << ...; return -1; }
MainReject ==
    /\ mainPc = "guard"
    /\ universe_too_small(argv.u, argv.num)
    /\ cerr' = Append(cerr,
         "the universe must be at least as large as the number of generated numbers")
    /\ status' = -1
    /\ mainPc' = "exit"
    /\ UNCHANGED <<perm, ctor, libIdle, argv, loopI, b, cout>>

\* auto perm = pdinklag::RandomPermutation(u, seed); and, in a debug build
\* run with --check, std::vector<bool> b(u)
MainConstruct ==
    /\ mainPc = "guard"
    /\ ~universe_too_small(argv.u, argv.num)
    /\ perm' = RandomPermutation(argv.u, argv.seed)
    /\ ctor' = [kind |-> "args", universe |-> argv.u, seed |-> argv.seed]
    /\ b' = IF argv.check THEN [k \in 1 .. argv.u |-> FALSE] ELSE <<>>
    /\ loopI' = 0
    /\ mainPc' = IF argv.check THEN "check" ELSE "print"
    /\ UNCHANGED <<libIdle, argv, cout, cerr, status>>

\* check pass, j = perm(i) inside b and not seen: b[j] = 1
MainCheckMark ==
    /\ mainPc = "check" /\ loopI < argv.u
    /\ LET j == operator_call(perm, loopI)
       IN  /\ j < argv.u
           /\ ~b[j + 1]
           /\ b' = [b EXCEPT ![j + 1] = TRUE]
    /\ loopI' = loopI + 1
    /\ UNCHANGED <<perm, ctor, libIdle, argv, mainPc, cout, cerr, status>>

\* check pass, j = perm(i) seen before: assert(!b[j]) aborts
MainCheckAssert ==
    /\ mainPc = "check" /\ loopI < argv.u
    /\ LET j == operator_call(perm, loopI)
       IN  j < argv.u /\ b[j + 1]
    /\ mainPc' = "abort"
    /\ status' = 134
    /\ UNCHANGED <<perm, ctor, libIdle, argv, loopI, b, cout, cerr>>

\* check pass, j = perm(i) outside b: b[j] reads and writes past the vector,
\* which is undefined; the bit read is either clear (the loop goes on, b as
\* it was) or set (the assertion aborts)
MainCheckOutOfRange ==
    /\ mainPc = "check" /\ loopI < argv.u
    /\ operator_call(perm, loopI) >= argv.u
    /\ \/ /\ loopI' = loopI + 1
          /\ UNCHANGED <<mainPc, status>>
       \/ /\ mainPc' = "abort"
          /\ status' = 134
          /\ UNCHANGED loopI
    /\ UNCHANGED <<perm, ctor, libIdle, argv, b, cout, cerr>>

\* check pass, i reaches u
MainCheckDone ==
    /\ mainPc = "check" /\ loopI >= argv.u
    /\ mainPc' = "print"
    /\ loopI' = 0
    /\ UNCHANGED <<perm, ctor, libIdle, argv, b, cout, cerr, status>>

\* std::cout << perm(i) << std::endl;
MainPrint ==
    /\ mainPc = "print" /\ loopI < argv.num
    /\ cout' = Append(cout, operator_call(perm, loopI))
    /\ loopI' = loopI + 1
    /\ UNCHANGED <<perm, ctor, libIdle, argv, mainPc, b, cerr, status>>

\* return 0;
MainReturn ==
    /\ mainPc = "print" /\ loopI >= argv.num
    /\ status' = 0
    /\ mainPc' = "exit"
    /\ UNCHANGED <<perm, ctor, libIdle, argv, loopI, b, cout, cerr>>

NextMain ==
    \/ MainProcessFail
    \/ MainProcessOk
    \/ MainReject
    \/ MainConstruct
    \/ MainCheckMark
    \/ MainCheckAssert
    \/ MainCheckOutOfRange
    \/ MainCheckDone
    \/ MainPrint
    \/ MainReturn

SpecMain == InitMain /\ [][NextMain]_vars

\* C6: run with universe < num, the tool writes a diagnostic and returns a
\* non-zero status without constructing a permutation and without printing a
\* number; in every run that prints numbers universe >= num holds and the
\* numbers printed are operator()(0), operator()(1), ... in that order, all
\* num of them once main has returned 0.
C6_UsageCheck ==
    /\ (argv.ok /\ argv.u < argv.num) =>
          /\ ctor.kind = "none"
          /\ cout = <<>>
          /\ mainPc \in {"process", "guard", "exit"}
          /\ mainPc = "exit" => (status # 0 /\ cerr # <<>>)
    /\ cout # <<>> =>
          /\ argv.u >= argv.num
          /\ Len(cout) <= argv.num
          /\ \A k \in DOMAIN cout : cout[k] = operator_call(perm, k - 1)
    /\ (mainPc = "exit" /\ status = 0) => Len(cout) = argv.num

C6_Witness ==
    /\ argv.ok /\ argv.u < argv.num
    /\ mainPc = "exit"
    /\ status # 0
    /\ cerr # <<>>

(***************************************************************************)
(* SpecSearch: prev_prime_3mod4 followed step by step, one action per      *)
(* loop iteration, for universes at the bottom and at the top of the word  *)
(***************************************************************************)
MaxSearchUniverse == 40
MaxSearchTop == 20

SearchUniverses ==
    (0 .. MaxSearchUniverse) \cup {WordMax - k : k \in 0 .. MaxSearchTop}

\* a descent that calls prime_predecessor(p) again
descend_arg_same(p) == p

\* the argument p - 1 of prime_predecessor in the while loop
descend_arg(p) == SubW(p, 1)

InitSearch ==
    /\ \E universe \in SearchUniverses : searchU = universe
    /\ searchPc = "table"
    /\ searchP = 0
    /\ OracleNone
    /\ perm = NoPerm /\ ctor = NoCtor
    /\ Fresh
    /\ TwinNone
    /\ MainNone

searchIdle ==
    <<perm, ctor, ret, it, steps, pc, derefs, yielded, twinVars, mainVars,
      oracleVars, searchU>>

\* the table scan: return the prime of the matching row, or go on to
\* p = prime_predecessor(universe)
SearchTable ==
    /\ searchPc = "table"
    /\ LET hit == common_lookup(searchU, 0)
       IN  IF hit # -1
           THEN searchP' = hit /\ searchPc' = "done"
           ELSE searchP' = searchU /\ searchPc' = "enter"
    /\ UNCHANGED searchIdle

\* prime_predecessor(p) up to its loop: the early returns for 0 and 2, and
\* the decrement of an even p
PredEnter ==
    /\ searchPc = "enter"
    /\ IF searchP = 0 \/ searchP = 2
       THEN searchP' = searchP /\ searchPc' = "test"
       ELSE /\ searchP' = (IF (searchP % 2) = 0 THEN SubW(searchP, 1) ELSE searchP)
            /\ searchPc' = "scan"
    /\ UNCHANGED searchIdle

\* while(!is_prime(p)) p -= 2; return p;
PredScan ==
    /\ searchPc = "scan"
    /\ IF is_prime(searchP)
       THEN searchP' = searchP /\ searchPc' = "test"
       ELSE searchP' = SubW(searchP, 2) /\ searchPc' = searchPc
    /\ UNCHANGED searchIdle

\* while((p & 3) != 3) p = prime_predecessor(p - 1); return p;
SearchLoop ==
    /\ searchPc = "test"
    /\ IF (searchP % 4) # 3
       THEN searchP' = descend_arg(searchP) /\ searchPc' = "enter"
       ELSE searchP' = searchP /\ searchPc' = "done"
    /\ UNCHANGED searchIdle

NextSearch ==
    \/ SearchTable
    \/ PredEnter
    \/ PredScan
    \/ SearchLoop

\* The function runs on its own thread of control: a step that can be taken
\* is taken.  For PredScan weak fairness is written out, with
\* ENABLED <<PredScan>>_vars replaced by its value searchPc = "scan" (the
\* step either leaves the loop or changes p).
SearchFairness ==
    /\ WF_vars(SearchTable)
    /\ WF_vars(PredEnter)
    /\ WF_vars(SearchLoop)
    /\ ([]<>(searchPc # "scan") \/ []<><<PredScan>>_vars)

SpecSearch == InitSearch /\ [][NextSearch]_vars /\ SearchFairness

\* the steps compute what the operator prev_prime_3mod4 computes
SearchMatchesOperator ==
    searchPc = "done" => searchP = prev_prime_3mod4(searchU)

\* C11: for every universe, the search of prev_prime_3mod4 terminates: the
\* downward scan inside prime_predecessor always reaches the point where
\* is_prime succeeds, and the loop that repeats prime_predecessor(p - 1)
\* until p mod 4 = 3 always reaches its return.
C11_SearchTerminates ==
    /\ <>(searchPc = "done")
    /\ (searchPc = "scan") ~> (searchPc = "test")

\* a search that missed the table, found no prime below the universe and
\* ended above it, after the scan passed 1 and wrapped to the top of the word
C11_Witness ==
    /\ searchPc = "done"
    /\ common_lookup(searchU, 0) = -1
    /\ searchP > searchU

(***************************************************************************)
(* SpecOracle: the functions of math_utils.hpp called directly, on         *)
(* arguments at the bottom and at the top of the word.  Next to the value  *)
(* returned, a call records the exact (unwrapped) value of every product   *)
(* it formed and every index of SMALL_PRIMES it read.                      *)
(***************************************************************************)
MaxArg == 300
MaxArgTop == 600

OracleInputs == (0 .. MaxArg) \cup {WordMax - k : k \in 0 .. MaxArgTop}

\* the exact values of lg * lg formed by the loop of isqrt_floor
RECURSIVE isqrt_loop_products(_, _, _)
isqrt_loop_products(x, e, r) ==
    IF e = 0 THEN {}
    ELSE LET e1  == e - 1
             cur == Shr(x, 2 * e1)
             sm  == (2 * r) % Word
             lg  == AddW(sm, 1)
         IN  {lg * lg} \cup
             isqrt_loop_products(x, e1, AddW(sm, B2I(MulW(lg, lg) <= cur)))

isqrt_floor_products(x) ==
    IF x < 4 THEN {}
    ELSE isqrt_loop_products(x, Shr(bit_width(x), 1), 1)

\* and the exact value of r * r formed by isqrt_ceil
isqrt_ceil_products(x) ==
    LET r == isqrt_floor(x)
    IN  isqrt_floor_products(x) \cup {r * r}

\* the indices j at which the first loop of is_prime, entered with
\* i = SMALL_PRIMES[j], reads SMALL_PRIMES
RECURSIVE small_loop_reads(_, _, _)
small_loop_reads(p, m, j) ==
    LET i == SmallPrime(j)
    IN  {j} \cup
        (IF i <= m /\ j < NUM_SMALL_PRIMES - 1
         THEN IF (p % i) = 0 THEN {} ELSE small_loop_reads(p, m, j + 1)
         ELSE {})

is_prime_reads(p) ==
    IF (p % 2) = 0 THEN {} ELSE small_loop_reads(p, isqrt_ceil(p), 2)

is_prime_products(p) ==
    IF (p % 2) = 0 THEN {} ELSE isqrt_ceil_products(p)

InitOracle ==
    /\ \E x \in OracleInputs : input = x
    /\ called = "none"
    /\ output = 0
    /\ products = {}
    /\ tableReads = {}
    /\ SearchNone
    /\ perm = NoPerm /\ ctor = NoCtor
    /\ Fresh
    /\ TwinNone
    /\ MainNone

oracleIdle ==
    <<perm, ctor, ret, it, steps, pc, derefs, yielded, twinVars, mainVars,
      searchVars, input>>

\* isqrt_floor(input)
IsqrtFloor ==
    /\ called' = "isqrt_floor"
    /\ output' = isqrt_floor(input)
    /\ products' = isqrt_floor_products(input)
    /\ tableReads' = {}
    /\ UNCHANGED oracleIdle

\* isqrt_ceil(input)
IsqrtCeil ==
    /\ called' = "isqrt_ceil"
    /\ output' = isqrt_ceil(input)
    /\ products' = isqrt_ceil_products(input)
    /\ tableReads' = {}
    /\ UNCHANGED oracleIdle

\* is_prime(input)
IsPrime ==
    /\ called' = "is_prime"
    /\ output' = is_prime(input)
    /\ products' = is_prime_products(input)
    /\ tableReads' = is_prime_reads(input)
    /\ UNCHANGED oracleIdle

\* prime_predecessor(input)
PrimePredecessor ==
    /\ called' = "prime_predecessor"
    /\ output' = prime_predecessor(input)
    /\ products' = {}
    /\ tableReads' = {}
    /\ UNCHANGED oracleIdle

NextOracle ==
    \/ IsqrtFloor
    \/ IsqrtCeil
    \/ IsPrime
    \/ PrimePredecessor

SpecOracle == InitOracle /\ [][NextOracle]_vars

\* n is a prime number, for n within the word: a composite n <= WordMax has
\* a divisor below 2^(WordBits/2)
IsPrimeWord(n) ==
    n >= 2 /\ \A d \in 2 .. (pow2(WordBits \div 2) - 1) : d < n => (n % d) # 0

\* C12: is_prime(p) returns true exactly when p is a prime number, and it
\* reads SMALL_PRIMES only at indices up to its last entry, 54.
C12_IsPrimeExact ==
    called = "is_prime" =>
        /\ output = IsPrimeWord(input)
        /\ \A j \in tableReads : j >= 0 /\ j <= NUM_SMALL_PRIMES - 1

\* C13: prime_predecessor(0) = 0, prime_predecessor(2) = 2, and for every
\* other p >= 2 prime_predecessor(p) is the largest prime q <= p.
C13_PrimePredecessor ==
    called = "prime_predecessor" =>
        /\ input = 0 => output = 0
        /\ input = 2 => output = 2
        /\ input > 2 =>
              /\ output <= input
              /\ IsPrimeWord(output)
              /\ \A q \in (output + 1) .. input : ~IsPrimeWord(q)

\* C14: r = isqrt_floor(x) satisfies r*r <= x < (r+1)*(r+1), and
\* isqrt_ceil(x) is the least c with c*c >= x.
C14_IsqrtExact ==
    /\ called = "isqrt_floor" =>
          /\ output * output <= input
          /\ input < (output + 1) * (output + 1)
    /\ called = "isqrt_ceil" =>
          /\ output * output >= input
          /\ \A c \in 0 .. (output - 1) : c * c < input

\* C15: no product formed in isqrt_floor or isqrt_ceil (lg*lg in the loop,
\* r*r in the rounding-up test), called directly or from is_prime, exceeds
\* the largest value of the word.
C15_NoProductOverflow ==
    called \in {"isqrt_floor", "isqrt_ceil", "is_prime"} =>
        \A q \in products : q <= WordMax

=============================================================================
